---------------------------- MODULE Spec2Model ----------------------------
(***************************************************************************)
(* The inference session protocol of jgmurillo10/webllm.                   *)
(*                                                                         *)
(*   - the SmolVLM worker (src/app/page.tsx, lines 58-274): check, load,   *)
(*     generate, the memoized SmolVLM.getInstance and the shared           *)
(*     stopping_criteria, driven by the "message" listener;                *)
(*   - the worker-backed describe page (src/app/describe/page.tsx, lines   *)
(*     454-1036): onMessageReceived, the generate effect,                  *)
(*     handleSendMessage and the Load Model button;                        *)
(*   - the translate page (src/app/translate/page.tsx): initializeEngine,  *)
(*     handleTranslate, swapLanguages.                                     *)
(*                                                                         *)
(* An async function is a task with a program counter: it runs from one    *)
(* await to the next in one step (a JavaScript job runs to completion) and *)
(* the tasks of one thread interleave at their awaits.  The worker and the *)
(* page exchange messages over two FIFO channels, inbox and outbox.        *)
(*                                                                         *)
(* A text is a sequence of pieces (a piece stands for a run of             *)
(* characters); " " is the piece that is white space.                      *)
(***************************************************************************)
EXTENDS Naturals, Sequences, FiniteSets

VARIABLES
  page,            \* the route that is mounted: "describe" or "translate"
  mode,            \* "ui": handlers run only from rendered, enabled controls
                   \* "api": handlers also run from rendered controls that
                   \*        are disabled (translate page)
                   \* "client": a bare client of the worker, no page logic
  adapter,         \* the platform: what navigator.gpu.requestAdapter yields
  \* ---- worker (src/app/page.tsx)
  fp16_supported,  \* let fp16_supported
  processor,       \* SmolVLM.processor: 0 is null, n the n-th instance built
  model,           \* SmolVLM.model: 0 is null, n the n-th instance built
  interrupted,     \* stopping_criteria.interrupted
  tasks,           \* the async invocations of check/load/generate, by number
  procStarts,      \* calls of AutoProcessor.from_pretrained so far
  modelStarts,     \* calls of AutoModelForVision2Seq.from_pretrained so far
  procFails,       \* ... of which rejected
  modelFails,
  faults,          \* failures of the engine and the platform so far
  inbox,           \* commands posted to the worker, not yet dispatched
  outbox,          \* events posted by the worker, not yet handled by the page
  \* ---- describe page (src/app/describe/page.tsx)
  gpuSupported,    \* "gpu" in navigator (the effect of lines 507-513)
  status,          \* useState<null | "loading" | "ready">
  error,           \* useState<null | string>
  loadingMessage,
  progressItems,
  messages,
  isThinking,
  isStreaming,
  listenerThinking,\* the isThinking captured by the registered listener
  listeners,       \* message listeners registered on the worker
  \* ---- bookkeeping of the describe page's requests (not program state)
  sends,           \* Generate commands posted so far
  loadsPosted,     \* Load commands posted so far
  rawTasks,        \* Load and Generate commands posted directly to the worker
  rawFlags,        \* Interrupt and Reset commands posted directly
  overlapped,      \* some Generate was posted while another was in flight
  handled,         \* chunks handled since the last "start" event
  lastProgress,    \* status and file of the last progress report handled
  \* ---- translate page (src/app/translate/page.tsx)
  engine,          \* useState<MLCEngine | null>: 0 is null
  isLoading,
  progress,
  sourceText,
  translatedText,
  sourceLang,
  targetLang,
  isTranslating,
  ttasks,          \* the async invocations of initializeEngine/handleTranslate
  engineStarts,    \* calls of webllm.CreateMLCEngine so far
  engineFails

workerVars == <<fp16_supported, processor, model, interrupted, tasks,
                procStarts, modelStarts, procFails, modelFails, faults, inbox,
                outbox>>
describeVars == <<gpuSupported, status, error, loadingMessage, progressItems,
                  messages, isThinking, isStreaming, listenerThinking,
                  listeners>>
ghostVars == <<sends, loadsPosted, rawTasks, rawFlags, overlapped, handled,
               lastProgress>>
translateVars == <<engine, isLoading, progress, sourceText, translatedText,
                   sourceLang, targetLang, isTranslating, ttasks,
                   engineStarts, engineFails>>
vars == <<page, mode, adapter, workerVars, describeVars, ghostVars, translateVars>>

---------------------------------------------------------------------------
(* Bounds of the model.                                                    *)

MaxSends == 2      \* Generate commands the describe page posts
MaxRaw == 2        \* Load and Generate commands a bare client posts
MaxFlags == 1      \* Interrupt and Reset commands posted to the worker
MaxTokens == 3     \* chunks one generation (or translation) streams
MaxChunks == 3     \* chunks all generations stream together
MaxFaults == 1     \* failures of the engine and the platform in one run
MaxInits == 2      \* initializeEngine invocations (translate page)
MaxTranslates == 2 \* handleTranslate invocations (translate page)
MaxRows == 3       \* rows of progressItems an engine's reports add up to
MaxQueue == 2      \* progress reports waiting for the page

NULL == "null"

---------------------------------------------------------------------------
(* Texts.                                                                  *)

RECURSIVE TrimStart(_)
TrimStart(s) ==
  IF s = <<>> THEN <<>>
  ELSE IF Head(s) = " " THEN TrimStart(Tail(s)) ELSE s

RECURSIVE TrimEnd(_)
TrimEnd(s) ==
  IF s = <<>> THEN <<>>
  ELSE IF s[Len(s)] = " " THEN TrimEnd(SubSeq(s, 1, Len(s) - 1)) ELSE s

\* String.prototype.trim
Trim(s) == TrimEnd(TrimStart(s))

RECURSIVE Concat(_)
\* the concatenation of a sequence of texts
Concat(ss) == IF ss = <<>> THEN <<>> ELSE Head(ss) \o Concat(Tail(ss))

RECURSIVE JoinSp(_)
\* Array.prototype.join(" ")
JoinSp(ss) ==
  IF ss = <<>> THEN <<>>
  ELSE IF Len(ss) = 1 THEN ss[1]
  ELSE ss[1] \o <<" ">> \o JoinSp(Tail(ss))

RECURSIVE SelectParts(_, _)
\* Array.prototype.filter on content parts, by part type
SelectParts(parts, type) ==
  IF parts = <<>> THEN <<>>
  ELSE IF Head(parts).type = type
       THEN <<Head(parts)>> \o SelectParts(Tail(parts), type)
       ELSE SelectParts(Tail(parts), type)

\* the texts the engine streams, and what the user can type
Stream == <<<<"Hola">>, <<" ">>, <<"mundo">>>>
\* the n-th piece of text the engine streams
ChunkAt(n) == Stream[((n - 1) % Len(Stream)) + 1]
Typed == {<<>>, <<" ">>, <<"hi">>}

TextPart(t) == [type |-> "text", text |-> t]
ImagePart(i) == [type |-> "image", image |-> i]
Turn(r, c) == [role |-> r, content |-> c]

---------------------------------------------------------------------------
(* Worker: src/app/page.tsx.                                               *)

DefaultPrompt == <<"Describe this image in detail.">>

\* messages.slice(-1)
LastMessage(msgs) == IF msgs = <<>> THEN <<>> ELSE <<msgs[Len(msgs)]>>

RECURSIVE AllContent(_)
\* a generate that looks at the content of every turn
AllContent(msgs) ==
  IF msgs = <<>> THEN <<>> ELSE Head(msgs).content \o AllContent(Tail(msgs))

\* lastMessage.flatMap((x) => x.content)
LastContent(msgs) ==
  IF msgs = <<>> THEN <<>> ELSE msgs[Len(msgs)].content

RECURSIVE NonEmptyImages(_)
\* .filter(msg => msg.type === "image" && !!msg.image)
NonEmptyImages(parts) ==
  IF parts = <<>> THEN <<>>
  ELSE IF Head(parts).type = "image" /\ Head(parts).image # ""
       THEN <<Head(parts)>> \o NonEmptyImages(Tail(parts))
       ELSE NonEmptyImages(Tail(parts))

ImageContents(msgs) == NonEmptyImages(LastContent(msgs))

RECURSIVE PartTexts(_)
\* .map((c) => c.text || "")
PartTexts(parts) ==
  IF parts = <<>> THEN <<>> ELSE <<Head(parts).text>> \o PartTexts(Tail(parts))

\* textContent || "Describe this image in detail."
PromptText(msgs) ==
  LET textContent == JoinSp(PartTexts(SelectParts(LastContent(msgs), "text")))
  IN IF textContent = <<>> THEN DefaultPrompt ELSE textContent

\* processor.apply_chat_template, lines 156-164: one user turn with an
\* image slot and the text, and the generation prompt after it
ChatTemplate(text) == <<"User:", "<image>">> \o text \o <<"Assistant:">>

InRange(evs, st) == \E i \in DOMAIN evs : evs[i] = st

\* a "ready" event has been posted by some load
ReadyPosted == \E i \in DOMAIN tasks : InRange(tasks[i].evs, "ready")

\* some invocation of load has not returned yet
LoadPending ==
  \E i \in DOMAIN tasks : tasks[i].kind = "load" /\ tasks[i].pc # "done"

\* some invocation of load has ended by a failure
LoadFailed ==
  \E i \in DOMAIN tasks : tasks[i].kind = "load" /\ tasks[i].failedAt = "load"

\* a new invocation of an async function of the worker.  starts counts the
\* from_pretrained calls it makes, evs records the statuses it posts,
\* failedAt names the step that threw, escaped tells that nothing caught
\* the exception, out is the output its "complete" event carried, intAt the
\* number of chunks it had produced when an Interrupt was received during
\* it; bad is the static field and the instance of a from_pretrained that
\* rejected under it; flagged, afterReady, midLoad and afterFail record what
\* held when it was invoked (flagged: stopping_criteria.interrupted);
\* sawReset marks the invocations made before a Reset was received and
\* afterReset those made after one.
NewTask(kind, pc) ==
  [kind |-> kind, pc |-> pc, ph |-> 0, cb |-> (kind = "load"),
   data |-> <<>>, prompt |-> <<>>, produced |-> <<>>, stopped |-> FALSE,
   inst |-> 0, starts |-> 0, evs |-> <<>>, escaped |-> FALSE,
   failedAt |-> "", out |-> NULL, intAt |-> <<>>, flagged |-> interrupted,
   bad |-> <<>>, sawReset |-> FALSE,
   afterReset |-> \E i \in DOMAIN tasks : tasks[i].sawReset,
   afterReady |-> ReadyPosted, midLoad |-> LoadPending,
   afterFail |-> LoadFailed]

Ev(t, st) == [status |-> st, inv |-> t]
EvData(t, st, d) == [status |-> st, inv |-> t, data |-> d]
EvFile(t, st, f) == [status |-> st, inv |-> t, file |-> f]
EvOut(t, st, o) == [status |-> st, inv |-> t, output |-> o]

RECURSIVE Statuses(_)
Statuses(evs) ==
  IF evs = <<>> THEN <<>> ELSE <<Head(evs).status>> \o Statuses(Tail(evs))

\* task t posts the events evs (self.postMessage) and moves on; evs of the
\* task records the statuses it has posted.  The bare client takes an event
\* off the channel as soon as it is posted.
Posts(t, rec, evs) ==
  /\ LET r == [rec EXCEPT !.evs = @ \o Statuses(evs)]
     IN tasks' = IF t \in DOMAIN tasks THEN [tasks EXCEPT ![t] = r]
                 ELSE Append(tasks, r)
  /\ outbox' = IF mode = "client" THEN outbox ELSE outbox \o evs


\* the engine or the platform may fail once more
MayFail == faults < MaxFaults


genFrame == <<fp16_supported, processor, model, interrupted, procStarts,
              modelStarts, procFails, modelFails>>
okFrame == <<genFrame, faults>>

\* generate, lines 128-143: runs once getInstance has returned; a request
\* without an image throws outside the try block (the promise of generate
\* rejects and nothing is posted), the others await RawImage.read
Validate(t, rec, evs) ==
  IF ImageContents(rec.data) = <<>>
  THEN Posts(t, [rec EXCEPT !.pc = "done", !.escaped = TRUE,
                            !.failedAt = "validation"], evs)
  ELSE Posts(t, [rec EXCEPT !.pc = "images"], evs)

\* what follows `await SmolVLM.getInstance(...)` in load (line 243) and in
\* generate (line 128)
Returned(t, rec, evs) ==
  IF rec.kind = "load"
  THEN Posts(t, [rec EXCEPT !.pc = "done"], evs \o <<Ev(t, "ready")>>)
  ELSE Validate(t, rec, evs)

\* whether `this.processor ??= ...` / `this.model ??= ...` evaluates its
\* right-hand side, given the value of the static field
NeedsLoad(field) == field = 0

\* a getInstance that returns as soon as the processor is there
ReadyAfterProcessor(t, rec, evs, p, m) ==
  /\ processor' = p
  /\ model' = m
  /\ procStarts' = IF NeedsLoad(p) THEN procStarts + 1 ELSE procStarts
  /\ modelStarts' = modelStarts
  /\ IF NeedsLoad(p)
     THEN Posts(t, [rec EXCEPT !.pc = "processor", !.ph = 0,
                               !.inst = procStarts + 1, !.starts = @ + 1], evs)
     ELSE Returned(t, rec, evs)

\* SmolVLM.getInstance from its entry, or from the assignment that follows
\* an await, with p and m the values of the two static fields at that point:
\* `x ??= await f()` calls f only if x is null, and assigns when f resolves
GetInstance(t, rec, evs, p, m) ==
  /\ processor' = p
  /\ model' = m
  /\ procStarts' = IF NeedsLoad(p) THEN procStarts + 1 ELSE procStarts
  /\ modelStarts' =
       IF ~NeedsLoad(p) /\ NeedsLoad(m) THEN modelStarts + 1 ELSE modelStarts
  /\ IF NeedsLoad(p)
     THEN Posts(t, [rec EXCEPT !.pc = "processor", !.ph = 0,
                               !.inst = procStarts + 1, !.starts = @ + 1], evs)
     ELSE IF NeedsLoad(m)
     THEN Posts(t, [rec EXCEPT !.pc = "model", !.ph = 0,
                               !.inst = modelStarts + 1, !.starts = @ + 1], evs)
     ELSE Returned(t, rec, evs)

\* case "check": check() up to `await requestAdapter()`
DispatchCheck(t) ==
  /\ tasks' = Append(tasks, NewTask("check", "adapter"))
  /\ UNCHANGED <<fp16_supported, processor, model, interrupted, procStarts,
                 modelStarts, procFails, modelFails, outbox>>

\* a load that enters getInstance as if nothing had been built yet
ReloadingLoad(t) ==
  /\ GetInstance(t, NewTask("load", "entry"),
                 <<EvData(t, "loading", "Loading SmolVLM model...")>>, 0, 0)
  /\ UNCHANGED <<fp16_supported, interrupted, procFails, modelFails>>

\* case "load": load() posts "loading" and enters getInstance
DispatchLoad(t) ==
  /\ GetInstance(t, NewTask("load", "entry"),
                 <<EvData(t, "loading", "Loading SmolVLM model...")>>,
                 processor, model)
  /\ UNCHANGED <<fp16_supported, interrupted, procFails, modelFails>>

\* a case "generate" that leaves the stopping criteria as they are
StaleGenerate(t, data) ==
  /\ interrupted' = interrupted
  /\ GetInstance(t, [NewTask("generate", "entry") EXCEPT !.data = data],
                 <<>>, processor, model)
  /\ UNCHANGED <<fp16_supported, procFails, modelFails>>

\* case "generate": stopping_criteria.reset(), then generate(data) enters
\* getInstance without a progress callback
DispatchGenerate(t, data) ==
  /\ interrupted' = FALSE
  /\ GetInstance(t, [NewTask("generate", "entry") EXCEPT !.data = data],
                 <<>>, processor, model)
  /\ UNCHANGED <<fp16_supported, procFails, modelFails>>

\* a case "reset" that also drops the processor and the model
DiscardingReset(type) ==
  /\ interrupted' = (type = "interrupt")
  /\ processor' = IF type = "reset" THEN 0 ELSE processor
  /\ model' = IF type = "reset" THEN 0 ELSE model
  /\ tasks' = [t \in DOMAIN tasks |->
                IF type = "interrupt" /\ tasks[t].kind = "generate"
                   /\ tasks[t].pc # "done" /\ tasks[t].intAt = <<>>
                THEN [tasks[t] EXCEPT !.intAt = <<Len(tasks[t].produced)>>]
                ELSE IF type = "reset"
                THEN [tasks[t] EXCEPT !.sawReset = TRUE]
                ELSE tasks[t]]
  /\ UNCHANGED <<fp16_supported, procStarts, modelStarts, procFails,
                 modelFails, outbox>>

\* case "interrupt" / case "reset"
DispatchFlag(type) ==
  /\ interrupted' = (type = "interrupt")
  \* bookkeeping: the invocations of generate an Interrupt finds in flight,
  \* and the invocations made before a Reset
  /\ tasks' = [t \in DOMAIN tasks |->
                IF type = "interrupt" /\ tasks[t].kind = "generate"
                   /\ tasks[t].pc # "done" /\ tasks[t].intAt = <<>>
                THEN [tasks[t] EXCEPT !.intAt = <<Len(tasks[t].produced)>>]
                ELSE IF type = "reset"
                THEN [tasks[t] EXCEPT !.sawReset = TRUE]
                ELSE tasks[t]]
  /\ UNCHANGED <<fp16_supported, processor, model, procStarts,
                 modelStarts, procFails, modelFails, outbox>>

\* self.addEventListener("message", ...): one command is taken off the
\* channel and its case runs up to the first await
Dispatch ==
  /\ page = "describe"
  /\ inbox # <<>>
  /\ inbox' = Tail(inbox)
  /\ faults' = faults
  /\ LET cmd == Head(inbox)
         t == Len(tasks) + 1
     IN CASE cmd.type = "check" -> DispatchCheck(t)
          [] cmd.type = "load" -> DispatchLoad(t)
          [] cmd.type = "generate" -> DispatchGenerate(t, cmd.data)
          [] OTHER -> DispatchFlag(cmd.type)
  /\ UNCHANGED <<page, mode, adapter, describeVars, ghostVars, translateVars>>

\* the file each load routine fetches
FileOf(pc) == IF pc = "processor" THEN "preprocessor_config.json"
              ELSE "model.onnx"

Loading(t) == t \in DOMAIN tasks /\ tasks[t].pc \in {"processor", "model"}

workerFrame == <<page, mode, adapter, inbox, describeVars, ghostVars,
                 translateVars>>


\* load, lines 238-241: the progress callback posts the engine's report as
\* it is.  A routine reports initiate, then progress, then done for its file.
Progress(t) ==
  /\ Loading(t)
  /\ tasks[t].cb
  /\ tasks[t].ph < 3
  /\ LET rec == tasks[t]
         f == FileOf(rec.pc)
     IN \/ /\ rec.ph = 0
           /\ Posts(t, [rec EXCEPT !.ph = 1], <<EvFile(t, "initiate", f)>>)
        \/ /\ rec.ph = 1
           /\ Posts(t, [rec EXCEPT !.ph = 2],
                    <<[status |-> "progress", inv |-> t, file |-> f,
                       progress |-> 50]>>)
        \/ /\ rec.ph \in {1, 2}
           /\ Posts(t, [rec EXCEPT !.ph = 3], <<EvFile(t, "done", f)>>)
  /\ UNCHANGED okFrame
  /\ UNCHANGED workerFrame

\* a from_pretrained call resolves: the awaiting `??=` assigns the static
\* field (whatever it holds by now) and getInstance goes on
LoadResolve(t) ==
  /\ Loading(t)
  /\ tasks[t].cb => tasks[t].ph = 3
  \* the model is built with device: "webgpu" (line 100)
  /\ tasks[t].pc = "model" => adapter # "none"
  /\ LET rec == tasks[t]
     IN IF rec.pc = "processor"
        THEN GetInstance(t, rec, <<>>, rec.inst, model)
        ELSE GetInstance(t, rec, <<>>, processor, rec.inst)
  /\ UNCHANGED <<fp16_supported, interrupted, procFails, modelFails, faults>>
  /\ UNCHANGED workerFrame

\* a getInstance that stores what from_pretrained returned before it
\* settles, so that a rejected one stays in the static field
CachingReject(t) ==
  /\ Loading(t)
  /\ IF tasks[t].pc = "model" /\ adapter = "none"
     THEN faults' = faults
     ELSE MayFail /\ faults' = faults + 1
  /\ LET rec == tasks[t]
     IN /\ procFails' = IF rec.pc = "processor" THEN procFails + 1 ELSE procFails
        /\ modelFails' = IF rec.pc = "model" THEN modelFails + 1 ELSE modelFails
        /\ processor' = IF rec.pc = "processor" THEN rec.inst ELSE processor
        /\ model' = IF rec.pc = "model" THEN rec.inst ELSE model
        /\ IF rec.kind = "load"
           THEN Posts(t, [rec EXCEPT !.pc = "done", !.failedAt = "load",
                                     !.bad = <<rec.pc, rec.inst>>],
                      <<EvData(t, "error", "load failed")>>)
           ELSE Posts(t, [rec EXCEPT !.pc = "done", !.escaped = TRUE,
                                     !.failedAt = "load",
                                     !.bad = <<rec.pc, rec.inst>>], <<>>)
  /\ UNCHANGED <<fp16_supported, interrupted, procStarts, modelStarts>>
  /\ UNCHANGED workerFrame

\* a from_pretrained call rejects: load catches it and posts "error"
\* (lines 244-249); in generate the await is outside the try block, the
\* promise of generate rejects and nothing is posted
LoadReject(t) ==
  /\ Loading(t)
  /\ IF tasks[t].pc = "model" /\ adapter = "none"
     THEN faults' = faults
     ELSE MayFail /\ faults' = faults + 1
  /\ LET rec == tasks[t]
     IN /\ procFails' = IF rec.pc = "processor" THEN procFails + 1 ELSE procFails
        /\ modelFails' = IF rec.pc = "model" THEN modelFails + 1 ELSE modelFails
        /\ IF rec.kind = "load"
           THEN Posts(t, [rec EXCEPT !.pc = "done", !.failedAt = "load",
                                     !.bad = <<rec.pc, rec.inst>>],
                      <<EvData(t, "error", "load failed")>>)
           ELSE Posts(t, [rec EXCEPT !.pc = "done", !.escaped = TRUE,
                                     !.failedAt = "load",
                                     !.bad = <<rec.pc, rec.inst>>], <<>>)
  /\ UNCHANGED <<fp16_supported, processor, model, interrupted, procStarts,
                 modelStarts>>
  /\ UNCHANGED workerFrame

\* check, lines 72-86: `navigator.gpu?.requestAdapter()` settles with the
\* platform's adapter; without one the throw of line 76 reaches the catch
CheckSettle(t) ==
  /\ t \in DOMAIN tasks
  /\ tasks[t].pc = "adapter"
  /\ IF adapter # "none"
     THEN /\ fp16_supported' = (adapter = "fp16")
          /\ Posts(t, [tasks[t] EXCEPT !.pc = "done"],
                   <<[status |-> "checked", inv |-> t,
                      fp16_supported |-> (adapter = "fp16")]>>)
     ELSE /\ fp16_supported' = fp16_supported
          /\ Posts(t, [tasks[t] EXCEPT !.pc = "done", !.failedAt = "check"],
                   <<EvData(t, "error", "no adapter found")>>)
  /\ UNCHANGED <<processor, model, interrupted, procStarts, modelStarts,
                 procFails, modelFails, faults>>
  /\ UNCHANGED workerFrame

\* generate, lines 141-168: RawImage.read of every image resolves; the text
\* and the prompt are computed and processor(prompt, images) is awaited
ImagesResolve(t) ==
  /\ t \in DOMAIN tasks
  /\ tasks[t].pc = "images"
  /\ Posts(t, [tasks[t] EXCEPT !.pc = "inputs",
                               !.prompt =
                                 ChatTemplate(PromptText(tasks[t].data))], <<>>)
  /\ UNCHANGED okFrame
  /\ UNCHANGED workerFrame

\* generate, line 198: the inputs are ready, "start" is posted and
\* model.generate is awaited
InputsResolve(t) ==
  /\ t \in DOMAIN tasks
  /\ tasks[t].pc = "inputs"
  /\ Posts(t, [tasks[t] EXCEPT !.pc = "generate"], <<Ev(t, "start")>>)
  /\ UNCHANGED okFrame
  /\ UNCHANGED workerFrame

\* generate, lines 141-168: RawImage.read, apply_chat_template or the
\* processor call throws; all three are outside the try block
PrepareReject(t) ==
  /\ t \in DOMAIN tasks
  /\ MayFail
  /\ faults' = faults + 1
  /\ tasks[t].pc \in {"images", "inputs"}
  /\ Posts(t, [tasks[t] EXCEPT !.pc = "done", !.escaped = TRUE,
                               !.failedAt = tasks[t].pc], <<>>)
  /\ UNCHANGED genFrame
  /\ UNCHANGED workerFrame

RECURSIVE TotalChunks(_)
\* chunks streamed by the first n tasks
TotalChunks(n) ==
  IF n = 0 THEN 0 ELSE Len(tasks[n].produced) + TotalChunks(n - 1)

\* whether the generation loop stops after the token it has just produced:
\* stopping_criteria is consulted once per step
StopsAfterToken == interrupted

\* one step of model.generate: the streamer's callback_function posts the
\* decoded piece, then the stopping criteria are consulted
GenToken(t) ==
  /\ t \in DOMAIN tasks
  /\ tasks[t].pc = "generate"
  /\ ~tasks[t].stopped
  /\ Len(tasks[t].produced) < MaxTokens
  /\ TotalChunks(Len(tasks)) < MaxChunks
  /\ LET c == ChunkAt(Len(tasks[t].produced) + 1)
     IN Posts(t, [tasks[t] EXCEPT !.produced = Append(@, c),
                                  !.stopped = StopsAfterToken],
              <<EvOut(t, "update", c)>>)
  /\ UNCHANGED okFrame
  /\ UNCHANGED workerFrame

\* processor.batch_decode of the output sequence, lines 210-215: the
\* sequence model.generate returns starts with the prompt
Decoded(rec) == rec.prompt \o Concat(rec.produced)

\* a generate that reports a stopped generation as an error
InterruptAsError(t) ==
  /\ t \in DOMAIN tasks
  /\ tasks[t].pc = "generate"
  /\ IF tasks[t].stopped
     THEN Posts(t, [tasks[t] EXCEPT !.pc = "done"],
                <<EvData(t, "error", "interrupted")>>)
     ELSE Posts(t, [tasks[t] EXCEPT !.pc = "done", !.out = Decoded(tasks[t])],
                <<EvOut(t, "complete", <<Decoded(tasks[t])>>)>>)
  /\ UNCHANGED okFrame
  /\ UNCHANGED workerFrame

\* model.generate returns (end of sequence, the token limit or the
\* stopping criteria) and the decoded output is posted, lines 210-221
GenFinish(t) ==
  /\ t \in DOMAIN tasks
  /\ tasks[t].pc = "generate"
  /\ Posts(t, [tasks[t] EXCEPT !.pc = "done", !.out = Decoded(tasks[t])],
           <<EvOut(t, "complete", <<Decoded(tasks[t])>>)>>)
  /\ UNCHANGED okFrame
  /\ UNCHANGED workerFrame

\* model.generate or batch_decode throws inside the try block, lines 222-227
GenThrow(t) ==
  /\ t \in DOMAIN tasks
  /\ MayFail
  /\ faults' = faults + 1
  /\ tasks[t].pc = "generate"
  /\ Posts(t, [tasks[t] EXCEPT !.pc = "done", !.failedAt = "generate"],
           <<EvData(t, "error", "generation failed")>>)
  /\ UNCHANGED genFrame
  /\ UNCHANGED workerFrame

---------------------------------------------------------------------------
(* Describe page: src/app/describe/page.tsx, lines 454-1036.               *)

Placeholder == Turn("assistant", <<TextPart(<<>>)>>)

\* a generate effect without the check of the last turn's role
EffectOnAnyChange(msgs) ==
  IF msgs = <<>> THEN <<>>
  ELSE <<[type |-> "generate", data |-> msgs]>>

\* the generate effect, lines 615-622, for the conversation it is run with:
\* the commands it posts
GenerateEffect(msgs) ==
  IF msgs = <<>> THEN <<>>
  ELSE IF msgs[Len(msgs)].role = "assistant" THEN <<>>
  ELSE <<[type |-> "generate", data |-> msgs]>>

\* an update that keeps the newest chunk only
Overwrite(lastContent, output) == output

\* the text an "update" event leaves in the last turn, lines 575-578
Accumulate(lastContent, output) ==
  IF lastContent.type = "text" THEN lastContent.text \o output ELSE output

\* case "update", lines 564-583, on the conversation
UpdateMessages(msgs, output) ==
  IF msgs = <<>> THEN msgs
  ELSE LET last == msgs[Len(msgs)]
       IN [msgs EXCEPT ![Len(msgs)] =
             Turn("assistant",
                  <<TextPart(Accumulate(last.content[1], output))>>)]

RECURSIVE MergeProgress(_, _)
\* case "progress", lines 534-538
MergeProgress(items, e) ==
  IF items = <<>> THEN <<>>
  ELSE <<IF Head(items).file = e.file
         THEN [Head(items) EXCEPT !.progress = e.progress]
         ELSE Head(items)>> \o MergeProgress(Tail(items), e)

RECURSIVE DropFirst(_, _)
\* a case "done" that removes the first row of the file only
DropFirst(items, f) ==
  IF items = <<>> THEN <<>>
  ELSE IF Head(items).file # f
       THEN <<Head(items)>> \o DropFirst(Tail(items), f)
       ELSE Tail(items)

RECURSIVE DropFile(_, _)
\* case "done", lines 541-543
DropFile(items, f) ==
  IF items = <<>> THEN <<>>
  ELSE IF Head(items).file # f
       THEN <<Head(items)>> \o DropFile(Tail(items), f)
       ELSE DropFile(Tail(items), f)

\* whether the listener's `if (isThinking) setIsThinking(false)` clears the
\* flag: it reads the isThinking of the render the listener was created in
ClearsThinking == listenerThinking

\* a generation is under way: its command is on the channel, its task has
\* not returned, or its terminal event has not been handled
GenInFlight ==
  \/ \E i \in DOMAIN inbox : inbox[i].type = "generate"
  \/ \E t \in DOMAIN tasks : tasks[t].kind = "generate" /\ tasks[t].pc # "done"
  \/ \E i \in DOMAIN outbox :
       /\ outbox[i].status \in {"complete", "error"}
       /\ tasks[outbox[i].inv].kind = "generate"

\* status after an event of status st: cases "loading" and "ready" set it
NextStatus(st) ==
  CASE st = "loading" -> "loading"
    [] st = "ready" -> "ready"
    [] OTHER -> status

\* a listener whose case "error" leaves the streaming flag as it is
StreamingKeptOnError(st) ==
  CASE st = "start" -> FALSE
    [] st = "update" -> TRUE
    [] st = "complete" -> FALSE
    [] OTHER -> isStreaming

\* isStreaming after an event of status st: lines 552, 560, 587, 591
NextStreaming(st) ==
  CASE st = "start" -> FALSE
    [] st = "update" -> TRUE
    [] st \in {"complete", "error"} -> FALSE
    [] OTHER -> isStreaming

\* isThinking after an event of status st: lines 551, 559, 588, 592
NextThinking(st) ==
  CASE st = "start" -> TRUE
    [] st = "update" -> IF ClearsThinking THEN FALSE ELSE isThinking
    [] st \in {"complete", "error"} -> FALSE
    [] OTHER -> isThinking

\* progressItems after the event e: cases "initiate", "progress", "done"
\* and "ready"
NextProgressItems(e) ==
  CASE e.status = "initiate" ->
         Append(progressItems, [file |-> e.file, progress |-> 0])
    [] e.status = "progress" -> MergeProgress(progressItems, e)
    [] e.status = "done" -> DropFile(progressItems, e.file)
    [] e.status = "ready" -> <<>>
    [] OTHER -> progressItems

\* messages after the event e: cases "start" and "update"
NextMessages(e) ==
  CASE e.status = "start" -> Append(messages, Placeholder)
    [] e.status = "update" -> UpdateMessages(messages, e.output)
    [] OTHER -> messages

\* onMessageReceived, lines 524-596, on the event at the head of the channel
OnMessageReceived ==
  /\ page = "describe"
  /\ listeners = 1
  /\ outbox # <<>>
  /\ outbox' = Tail(outbox)
  /\ LET e == Head(outbox)
         st == e.status
         msgs == NextMessages(e)
     IN /\ status' = NextStatus(st)
        /\ loadingMessage' = CASE st = "loading" -> e.data
                               [] st = "ready" -> ""
                               [] OTHER -> loadingMessage
        /\ progressItems' = NextProgressItems(e)
        /\ isThinking' = NextThinking(st)
        /\ isStreaming' = NextStreaming(st)
        /\ error' = IF st = "error" THEN e.data ELSE error
        /\ messages' = msgs
        \* the generate effect runs when messages has changed
        /\ inbox' = IF st \in {"start", "update"}
                    THEN inbox \o GenerateEffect(msgs) ELSE inbox
        /\ handled' = CASE st = "start" -> <<>>
                        [] st = "update" -> Append(handled, e.output)
                        [] OTHER -> handled
        /\ lastProgress' = IF st \in {"initiate", "progress", "done"}
                           THEN [status |-> st, file |-> e.file]
                           ELSE lastProgress
  /\ UNCHANGED <<gpuSupported, listenerThinking, listeners>>
  /\ UNCHANGED <<sends, loadsPosted, rawTasks, rawFlags, overlapped>>
  /\ UNCHANGED <<page, mode, adapter, translateVars>>
  /\ UNCHANGED <<fp16_supported, processor, model, interrupted, tasks,
                 procStarts, modelStarts, procFails, modelFails, faults>>

pageFrame == <<page, mode, adapter, translateVars, fp16_supported, processor, model,
               interrupted, tasks, procStarts, modelStarts, procFails,
               modelFails, faults, outbox>>

\* a setup effect whose cleanup does not remove the old listener
EffectWithoutCleanup ==
  /\ page = "describe"
  /\ listenerThinking # isThinking
  /\ listenerThinking' = isThinking
  /\ listeners' = listeners + 1
  /\ UNCHANGED <<gpuSupported, status, error, loadingMessage, progressItems,
                 messages, isThinking, isStreaming>>
  /\ UNCHANGED <<ghostVars, inbox>>
  /\ UNCHANGED pageFrame

\* the worker setup effect, lines 516-612, runs again after a render that
\* changed isThinking: the old listener is removed and one that captures the
\* new isThinking is added
ListenerEffect ==
  /\ page = "describe"
  /\ listenerThinking # isThinking
  /\ listenerThinking' = isThinking
  \* cleanup: removeEventListener; then addEventListener
  /\ listeners' = (listeners - 1) + 1
  /\ UNCHANGED <<gpuSupported, status, error, loadingMessage, progressItems,
                 messages, isThinking, isStreaming>>
  /\ UNCHANGED <<ghostVars, inbox>>
  /\ UNCHANGED pageFrame

\* a page that shows the chat interface from the start
AlwaysRendered == TRUE

\* the chat interface is rendered (lines 700, 829)
ChatRendered == gpuSupported /\ status = "ready"

\* the early return of handleSendMessage, line 657
SendRejected(selectedImage, inputText) ==
  (selectedImage = NULL /\ Trim(inputText) = <<>>) \/ isStreaming

\* the content handleSendMessage builds, lines 659-667
SendContent(selectedImage, inputText) ==
  (IF selectedImage # NULL THEN <<ImagePart(selectedImage)>> ELSE <<>>)
  \o (IF Trim(inputText) # <<>> THEN <<TextPart(inputText)>> ELSE <<>>)

\* what the user has entered when handleSendMessage runs: an image with a
\* caption, a text alone, white space alone, nothing
Entries ==
  {[selectedImage |-> "img", inputText |-> <<"hi">>],
   [selectedImage |-> NULL, inputText |-> <<"hi">>],
   [selectedImage |-> NULL, inputText |-> <<" ">>],
   [selectedImage |-> NULL, inputText |-> <<>>]}

\* handleSendMessage, lines 656-674, and the generate effect that follows
\* the render it causes.  selectedImage and inputText hold what the user
\* has entered since the last send (handleImageUpload, the textarea's
\* onChange); the handler reads them and clears them, so they are the
\* inputs of the step.
HandleSendMessage ==
  /\ page = "describe"
  /\ ChatRendered
  /\ sends < MaxSends
  /\ \E entry \in Entries :
       /\ ~SendRejected(entry.selectedImage, entry.inputText)
       /\ LET msgs == Append(messages,
                             Turn("user", SendContent(entry.selectedImage,
                                                      entry.inputText)))
          IN /\ messages' = msgs
             /\ inbox' = inbox \o GenerateEffect(msgs)
             /\ sends' = sends + Len(GenerateEffect(msgs))
       /\ overlapped' = (overlapped \/ GenInFlight)
  /\ UNCHANGED <<gpuSupported, status, error, loadingMessage, progressItems,
                 isThinking, isStreaming, listenerThinking, listeners>>
  /\ UNCHANGED <<loadsPosted, rawTasks, rawFlags, handled, lastProgress>>
  /\ UNCHANGED pageFrame

\* the Load Model button is rendered on the loading screen while status is
\* null, lines 756 and 782
LoadRendered == gpuSupported /\ status = NULL

\* the Load Model button, lines 782-793
LoadClick ==
  /\ page = "describe"
  /\ LoadRendered
  /\ inbox' = Append(inbox, [type |-> "load"])
  /\ status' = "loading"
  /\ loadsPosted' = loadsPosted + 1
  /\ UNCHANGED <<gpuSupported, error, loadingMessage, progressItems,
                 messages, isThinking, isStreaming, listenerThinking,
                 listeners>>
  /\ UNCHANGED <<sends, rawTasks, rawFlags, overlapped, handled,
                 lastProgress>>
  /\ UNCHANGED pageFrame

\* the files an engine reports about
Files == {"preprocessor_config.json", "model.onnx"}

\* the progress callback of load, lines 238-241, posts whatever the engine
\* reports; here the engine reports initiate, progress and done for its
\* files in any order
RelayProgress ==
  /\ mode = "feed"
  /\ Len(outbox) < MaxQueue
  /\ \E st \in {"initiate", "progress", "done"} : \E f \in Files :
       /\ st = "initiate" => Len(progressItems) + Len(outbox) < MaxRows
       /\ outbox' = Append(outbox,
                           IF st = "progress"
                           THEN [status |-> st, inv |-> 0, file |-> f,
                                 progress |-> 50]
                           ELSE EvFile(0, st, f))
  /\ UNCHANGED <<fp16_supported, processor, model, interrupted, tasks,
                 procStarts, modelStarts, procFails, modelFails, faults>>
  /\ UNCHANGED workerFrame

\* the conversation the page sends with a second turn that has a text and
\* no image, after a first turn with an image
FollowUp ==
  <<Turn("user", <<ImagePart("img"), TextPart(<<"hi">>)>>),
    Turn("assistant", <<TextPart(<<"Hola", " ", "mundo">>)>>),
    Turn("user", <<TextPart(<<"hi">>)>>)>>

\* the commands a client of the worker can post besides the initial check:
\* Load, Interrupt, Reset, and Generate with a valid request, with a turn
\* whose content list is empty, or with the follow-up conversation
ClientCommands ==
  {[type |-> "load"], [type |-> "interrupt"], [type |-> "reset"],
   [type |-> "generate", data |-> <<Turn("user", <<ImagePart("img")>>)>>],
   [type |-> "generate", data |-> <<Turn("user", <<>>)>>],
   [type |-> "generate", data |-> FollowUp]}

\* worker.postMessage called directly
PostRaw ==
  /\ page = "describe"
  /\ mode = "client"
  /\ \E cmd \in ClientCommands :
       /\ IF cmd.type \in {"interrupt", "reset"}
          THEN /\ rawFlags < MaxFlags
               /\ rawFlags' = rawFlags + 1
               /\ rawTasks' = rawTasks
          ELSE /\ rawTasks < MaxRaw
               /\ rawTasks' = rawTasks + 1
               /\ rawFlags' = rawFlags
       /\ inbox' = Append(inbox, cmd)
       /\ overlapped' = (overlapped \/ (cmd.type = "generate" /\ GenInFlight))
  /\ UNCHANGED describeVars
  /\ UNCHANGED <<sends, loadsPosted, handled, lastProgress>>
  /\ UNCHANGED pageFrame

---------------------------------------------------------------------------
(* Translate page: src/app/translate/page.tsx.                             *)

Languages == {"English", "Spanish"}
TranslationError == <<"Error during translation. Please try again.">>

otherFrame == <<page, mode, adapter, workerVars, describeVars, ghostVars>>

\* the welcome card is rendered while engine is null (line 112) and its
\* button is disabled while loading (line 139)
InitEnabled == engine = 0 /\ (mode = "api" \/ ~isLoading)

\* initializeEngine, lines 31-44, up to `await webllm.CreateMLCEngine(...)`
InitializeEngine ==
  /\ page = "translate"
  /\ InitEnabled
  /\ engineStarts < MaxInits
  /\ isLoading' = TRUE
  /\ progress' = "Initializing WebLLM engine..."
  /\ engineStarts' = engineStarts + 1
  /\ ttasks' = Append(ttasks, [kind |-> "init", pc |-> "create",
                               inst |-> engineStarts + 1,
                               fullResponse |-> <<>>])
  /\ UNCHANGED <<engine, sourceText, translatedText, sourceLang, targetLang,
                 isTranslating, engineFails>>
  /\ UNCHANGED otherFrame

\* initProgressCallback, lines 36-38
InitProgress(t) ==
  /\ page = "translate"
  /\ t \in DOMAIN ttasks
  /\ ttasks[t].kind = "init" /\ ttasks[t].pc = "create"
  /\ progress # "Loading model..."
  /\ progress' = "Loading model..."
  /\ UNCHANGED <<engine, isLoading, sourceText, translatedText, sourceLang,
                 targetLang, isTranslating, ttasks, engineStarts, engineFails>>
  /\ UNCHANGED otherFrame

\* CreateMLCEngine resolves, lines 46-48
InitResolve(t) ==
  /\ page = "translate"
  /\ t \in DOMAIN ttasks
  /\ ttasks[t].kind = "init" /\ ttasks[t].pc = "create"
  /\ engine' = ttasks[t].inst
  /\ progress' = "Engine ready!"
  /\ isLoading' = FALSE
  /\ ttasks' = [ttasks EXCEPT ![t].pc = "done"]
  /\ UNCHANGED <<sourceText, translatedText, sourceLang, targetLang,
                 isTranslating, engineStarts, engineFails>>
  /\ UNCHANGED otherFrame

\* an initializeEngine whose catch does not call setIsLoading(false)
RejectKeepsLoading(t) ==
  /\ page = "translate"
  /\ t \in DOMAIN ttasks
  /\ ttasks[t].kind = "init" /\ ttasks[t].pc = "create"
  /\ progress' = "Error initializing engine. Please try again."
  /\ engineFails' = engineFails + 1
  /\ ttasks' = [ttasks EXCEPT ![t].pc = "done"]
  /\ UNCHANGED <<engine, isLoading, sourceText, translatedText, sourceLang,
                 targetLang, isTranslating, engineStarts>>
  /\ UNCHANGED otherFrame

\* CreateMLCEngine rejects, lines 49-53
InitReject(t) ==
  /\ page = "translate"
  /\ t \in DOMAIN ttasks
  /\ ttasks[t].kind = "init" /\ ttasks[t].pc = "create"
  /\ progress' = "Error initializing engine. Please try again."
  /\ isLoading' = FALSE
  /\ engineFails' = engineFails + 1
  /\ ttasks' = [ttasks EXCEPT ![t].pc = "done"]
  /\ UNCHANGED <<engine, sourceText, translatedText, sourceLang, targetLang,
                 isTranslating, engineStarts>>
  /\ UNCHANGED otherFrame

\* the source textarea's onChange
SetSourceText ==
  /\ page = "translate"
  /\ engine # 0
  /\ \E txt \in Typed :
       /\ txt # sourceText
       /\ sourceText' = txt
  /\ UNCHANGED <<engine, isLoading, progress, translatedText, sourceLang,
                 targetLang, isTranslating, ttasks, engineStarts, engineFails>>
  /\ UNCHANGED otherFrame

\* a handleTranslate that checks the engine only
RejectedWithoutEngine == engine = 0

\* the early return of handleTranslate, line 57
TranslateRejected == engine = 0 \/ Trim(sourceText) = <<>>

\* the Translate button is rendered once engine is set and is disabled
\* while translating or without source text (lines 112, 333); the handler
\* itself can run at any time
TranslateEnabled ==
  \/ mode = "api"
  \/ (engine # 0 /\ ~isTranslating /\ Trim(sourceText) # <<>>)

\* handleTranslate, lines 56-68, up to `await engine.chat.completions.create`
\* (an invocation that returns at line 57 is kept in ttasks as "rejected",
\* for the record only)
HandleTranslate ==
  /\ page = "translate"
  /\ TranslateEnabled
  /\ Len(SelectSeq(ttasks, LAMBDA r : r.kind \in {"translate", "rejected"}))
       < MaxTranslates
  /\ IF TranslateRejected
     THEN /\ ttasks' = Append(ttasks, [kind |-> "rejected", pc |-> "done",
                                       inst |-> engine,
                                       fullResponse |-> <<>>])
          /\ UNCHANGED <<isTranslating, translatedText>>
     ELSE /\ isTranslating' = TRUE
          /\ translatedText' = <<>>
          /\ ttasks' = Append(ttasks, [kind |-> "translate", pc |-> "create",
                                       inst |-> engine,
                                       fullResponse |-> <<>>])
  /\ UNCHANGED <<engine, isLoading, progress, sourceText, sourceLang,
                 targetLang, engineStarts, engineFails>>
  /\ UNCHANGED otherFrame

\* chat.completions.create resolves with the stream of chunks
StreamOpen(t) ==
  /\ page = "translate"
  /\ t \in DOMAIN ttasks
  /\ ttasks[t].kind = "translate" /\ ttasks[t].pc = "create"
  /\ ttasks' = [ttasks EXCEPT ![t].pc = "stream"]
  /\ UNCHANGED <<engine, isLoading, progress, sourceText, translatedText,
                 sourceLang, targetLang, isTranslating, engineStarts,
                 engineFails>>
  /\ UNCHANGED otherFrame

\* `fullResponse += content`, line 73
AddContent(fullResponse, content) == fullResponse \o content

\* one round of the `for await` loop, lines 71-75; a chunk without delta
\* content counts as ""
StreamChunk(t) ==
  /\ page = "translate"
  /\ t \in DOMAIN ttasks
  /\ ttasks[t].kind = "translate" /\ ttasks[t].pc = "stream"
  /\ Len(ttasks[t].fullResponse) < MaxTokens
  /\ \E c \in {ChunkAt(Len(ttasks[t].fullResponse) + 1), <<>>} :
       LET full == AddContent(ttasks[t].fullResponse, c)
       IN /\ c = <<>> => translatedText # ttasks[t].fullResponse
          /\ ttasks' = [ttasks EXCEPT ![t].fullResponse = full]
          /\ translatedText' = full
  /\ UNCHANGED <<engine, isLoading, progress, sourceText, sourceLang,
                 targetLang, isTranslating, engineStarts, engineFails>>
  /\ UNCHANGED otherFrame

\* the stream ends: the finally block, lines 79-81
StreamEnd(t) ==
  /\ page = "translate"
  /\ t \in DOMAIN ttasks
  /\ ttasks[t].kind = "translate" /\ ttasks[t].pc = "stream"
  /\ isTranslating' = FALSE
  /\ ttasks' = [ttasks EXCEPT ![t].pc = "done"]
  /\ UNCHANGED <<engine, isLoading, progress, sourceText, translatedText,
                 sourceLang, targetLang, engineStarts, engineFails>>
  /\ UNCHANGED otherFrame

\* a handleTranslate whose catch has no finally block after it
ThrowWithoutFinally(t) ==
  /\ page = "translate"
  /\ t \in DOMAIN ttasks
  /\ ttasks[t].kind = "translate" /\ ttasks[t].pc \in {"create", "stream"}
  /\ translatedText' = TranslationError
  /\ ttasks' = [ttasks EXCEPT ![t].pc = "failed"]
  /\ UNCHANGED <<engine, isLoading, progress, sourceText, sourceLang,
                 targetLang, isTranslating, engineStarts, engineFails>>
  /\ UNCHANGED otherFrame

\* create or the stream throws: the catch and finally blocks, lines 76-81
StreamThrow(t) ==
  /\ page = "translate"
  /\ t \in DOMAIN ttasks
  /\ ttasks[t].kind = "translate" /\ ttasks[t].pc \in {"create", "stream"}
  /\ translatedText' = TranslationError
  /\ isTranslating' = FALSE
  /\ ttasks' = [ttasks EXCEPT ![t].pc = "failed"]
  /\ UNCHANGED <<engine, isLoading, progress, sourceText, sourceLang,
                 targetLang, engineStarts, engineFails>>
  /\ UNCHANGED otherFrame

\* a swapLanguages that reads each value after the setter before it
SwapInSequence ==
  /\ page = "translate"
  /\ engine # 0
  /\ sourceLang' = targetLang
  /\ targetLang' = targetLang
  /\ sourceText' = translatedText
  /\ translatedText' = translatedText
  /\ UNCHANGED <<engine, isLoading, progress, isTranslating, ttasks,
                 engineStarts, engineFails>>
  /\ UNCHANGED otherFrame

\* swapLanguages, lines 84-89
SwapLanguages ==
  /\ page = "translate"
  /\ engine # 0
  /\ sourceLang' = targetLang
  /\ targetLang' = sourceLang
  /\ sourceText' = translatedText
  /\ translatedText' = sourceText
  /\ UNCHANGED <<engine, isLoading, progress, isTranslating, ttasks,
                 engineStarts, engineFails>>
  /\ UNCHANGED otherFrame

\* the target language select's onChange
SetTargetLang ==
  /\ page = "translate"
  /\ engine # 0
  /\ \E l \in Languages :
       /\ l # targetLang
       /\ targetLang' = l
  /\ UNCHANGED <<engine, isLoading, progress, sourceText, translatedText,
                 sourceLang, isTranslating, ttasks, engineStarts, engineFails>>
  /\ UNCHANGED otherFrame

---------------------------------------------------------------------------
(* The specifications.                                                     *)

\* the platforms: without an adapter, or with one that has shader-f16 (one
\* without it differs only in the dtype handed to the engine)
Adapters == {"none", "fp16"}

\* the state after page p has mounted: on the describe page the setup
\* effect has created the worker and posted "check" (lines 517-522) and the
\* detection effect has set gpuSupported (lines 507-513)
InitOf(p, m) ==
  /\ page = p
  /\ mode = m
  /\ gpuSupported \in (IF p = "describe" /\ m # "client" THEN BOOLEAN
                       ELSE {TRUE})
  /\ adapter \in (IF p = "describe" /\ gpuSupported THEN Adapters ELSE {"none"})
  /\ fp16_supported = FALSE
  /\ processor = 0
  /\ model = 0
  /\ interrupted = FALSE
  /\ tasks = <<>>
  /\ procStarts = 0 /\ modelStarts = 0 /\ procFails = 0 /\ modelFails = 0
  /\ faults = 0
  /\ inbox = IF p = "describe" /\ m # "feed" THEN <<[type |-> "check"]>>
             ELSE <<>>
  /\ outbox = <<>>
  /\ status = NULL
  /\ error = NULL
  /\ loadingMessage = ""
  /\ progressItems = <<>>
  /\ messages = <<>>
  /\ isThinking = FALSE
  /\ isStreaming = FALSE
  /\ listenerThinking = FALSE
  /\ listeners = 1
  /\ sends = 0 /\ loadsPosted = 0 /\ rawTasks = 0 /\ rawFlags = 0
  /\ overlapped = FALSE
  /\ handled = <<>>
  /\ lastProgress = [status |-> NULL, file |-> NULL]
  /\ engine = 0
  /\ isLoading = FALSE
  /\ progress = ""
  /\ sourceText = <<>>
  /\ translatedText = <<>>
  /\ sourceLang = "English"
  /\ targetLang = "Spanish"
  /\ isTranslating = FALSE
  /\ ttasks = <<>>
  /\ engineStarts = 0 /\ engineFails = 0

WorkerStep ==
  \/ Dispatch
  \/ \E t \in DOMAIN tasks : Progress(t)
  \/ \E t \in DOMAIN tasks : LoadResolve(t)
  \/ \E t \in DOMAIN tasks : LoadReject(t)
  \/ \E t \in DOMAIN tasks : CheckSettle(t)
  \/ \E t \in DOMAIN tasks : ImagesResolve(t)
  \/ \E t \in DOMAIN tasks : InputsResolve(t)
  \/ \E t \in DOMAIN tasks : PrepareReject(t)
  \/ \E t \in DOMAIN tasks : GenToken(t)
  \/ \E t \in DOMAIN tasks : GenFinish(t)
  \/ \E t \in DOMAIN tasks : GenThrow(t)

DescribeStep ==
  \/ OnMessageReceived
  \/ ListenerEffect
  \/ HandleSendMessage
  \/ LoadClick

TranslateStep ==
  \/ InitializeEngine
  \/ HandleTranslate
  \/ SetSourceText
  \/ SwapLanguages
  \/ SetTargetLang
  \/ \E t \in DOMAIN ttasks : InitProgress(t)
  \/ \E t \in DOMAIN ttasks : InitResolve(t)
  \/ \E t \in DOMAIN ttasks : InitReject(t)
  \/ \E t \in DOMAIN ttasks : StreamOpen(t)
  \/ \E t \in DOMAIN ttasks : StreamChunk(t)
  \/ \E t \in DOMAIN ttasks : StreamEnd(t)
  \/ \E t \in DOMAIN ttasks : StreamThrow(t)

\* the describe page as rendered: handlers run only from the controls the
\* page shows and enables
Init == InitOf("describe", "ui")
Next == WorkerStep \/ DescribeStep
Spec == Init /\ [][Next]_vars

\* the worker alone, with a client that posts commands and leaves the
\* events on the channel
InitWorker == InitOf("describe", "client")
NextWorker == WorkerStep \/ PostRaw
SpecWorker == InitWorker /\ [][NextWorker]_vars

\* the describe page's listener fed with the reports of an arbitrary engine
InitFeed == InitOf("describe", "feed")
NextFeed == RelayProgress \/ OnMessageReceived
SpecFeed == InitFeed /\ [][NextFeed]_vars

\* the translate page, through its enabled controls or with its handlers
\* run whatever the disabled attributes say
InitTranslate == InitOf("translate", "ui") \/ InitOf("translate", "api")
SpecTranslate == InitTranslate /\ [][TranslateStep]_vars

\* the translate page as rendered, with an engine whose calls settle: a
\* pending chat.completions.create resolves or throws, and an open stream
\* ends or throws
SpecTranslateFair ==
  /\ InitOf("translate", "ui")
  /\ [][TranslateStep]_vars
  /\ \A t \in 1..(MaxInits + MaxTranslates) :
       WF_vars(StreamOpen(t) \/ StreamEnd(t) \/ StreamThrow(t))

---------------------------------------------------------------------------
(* Properties.                                                             *)

GenTasks == {t \in DOMAIN tasks : tasks[t].kind = "generate"}
LoadTasks == {t \in DOMAIN tasks : tasks[t].kind = "load"}

\* the number of events with status st among evs
RECURSIVE Count(_, _)
Count(evs, st) ==
  IF evs = <<>> THEN 0
  ELSE (IF Head(evs) = st THEN 1 ELSE 0) + Count(Tail(evs), st)

\* start, update*, then one of complete and error
MatchesPattern(evs) ==
  /\ Len(evs) >= 2
  /\ evs[1] = "start"
  /\ evs[Len(evs)] \in {"complete", "error"}
  /\ \A i \in 2..(Len(evs) - 1) : evs[i] = "update"

\* C1: once an invocation of generate has returned, the events it posted
\* are GenerationStarted, any number of TokenProduced, and exactly one
\* terminal event (GenerationComplete or Error)
C1_EventPattern ==
  \A t \in GenTasks : tasks[t].pc = "done" => MatchesPattern(tasks[t].evs)

\* C2: a Generate whose last turn has an empty content list, once its
\* validation has rejected it, has been answered by an Error event and by no
\* GenerationStarted
C2_EmptyContentError ==
  \A t \in GenTasks :
    (LastContent(tasks[t].data) = <<>> /\ tasks[t].failedAt = "validation")
      => tasks[t].evs = <<"error">>

\* C3: an invocation of check, load or generate that ended by a failure
\* (of the probe, of an engine load, of the validation, of the image read,
\* of the input processing, of model.generate or the decoding) has posted
\* exactly one Error event
C3_FailuresReported ==
  \A t \in DOMAIN tasks :
    tasks[t].failedAt # "" => Count(tasks[t].evs, "error") = 1

\* C4: no Generate is posted while an earlier generation is in flight (its
\* command is on the channel, its invocation has not returned, or its
\* terminal event has not been handled)
C4_OneInFlight == ~overlapped

\* C5: of two invocations of generate, the later one posts nothing before
\* the earlier one has returned
C5_NoInterleave ==
  \A t1 \in GenTasks : \A t2 \in GenTasks :
    (t1 < t2 /\ tasks[t2].evs # <<>>) => tasks[t1].pc = "done"

\* the Ready and Error events an invocation has posted
Terminals(t) == Count(tasks[t].evs, "ready") + Count(tasks[t].evs, "error")

\* C6: when a Load is received while an earlier load is pending, the two
\* post one Ready or one Error between them, and each load routine is
\* started once
C6_DoubleLoadOnce ==
  \A t1 \in LoadTasks : \A t2 \in LoadTasks :
    (t1 < t2 /\ tasks[t2].midLoad
       /\ tasks[t1].pc = "done" /\ tasks[t2].pc = "done")
      => /\ Terminals(t1) + Terminals(t2) = 1
         /\ procStarts <= 1
         /\ modelStarts <= 1

\* C7: a Load received after a Ready was posted starts no load routine and
\* returns at once
C7_LoadAfterReadyNoop ==
  \A t \in LoadTasks :
    tasks[t].afterReady => (tasks[t].starts = 0 /\ tasks[t].pc = "done")

\* C7 witness: a second Load has run after the first one's Ready
C7_Witness ==
  \E t \in LoadTasks :
    /\ tasks[t].afterReady
    /\ tasks[t].evs = <<"loading", "ready">>
    /\ procStarts = 1 /\ modelStarts = 1

\* C8: each engine construction routine has been run to success at most
\* once: no second processor, model or translation engine is built
C8_SingleEngine ==
  /\ procStarts - procFails <= 1
  /\ modelStarts - modelFails <= 1
  /\ engineStarts - engineFails <= 1

\* C9: the describe page posts a Generate only in a step taken with status
\* "ready"
C9_GenerateOnlyWhenReady ==
  [][(Len(inbox') > Len(inbox) /\ inbox'[Len(inbox')].type = "generate")
       => status = "ready"]_vars

\* C9 witness: a Generate was posted, and status is "ready"
C9_Witness == sends > 0 /\ status = "ready"

\* the text of the last turn of the conversation
Displayed == messages[Len(messages)].content[1].text

\* the latest invocation of generate that posted "start"
Started == {t \in GenTasks : InRange(tasks[t].evs, "start")}
LatestStarted == CHOOSE t \in Started : \A u \in Started : u <= t

\* C10: while generations do not overlap, the text of the assistant turn is
\* the concatenation of the chunks handled since its "start", these are the
\* first chunks the generation produced, in order, and once its terminal
\* event is handled the text is the concatenation of all of them
C10_Concatenation ==
  (~overlapped /\ messages # <<>>
     /\ messages[Len(messages)].role = "assistant")
    => /\ Started # {}
       /\ Displayed = Concat(handled)
       /\ Len(handled) <= Len(tasks[LatestStarted].produced)
       /\ handled = SubSeq(tasks[LatestStarted].produced, 1, Len(handled))
       /\ (tasks[LatestStarted].pc = "done" /\ outbox = <<>>)
            => Displayed = Concat(tasks[LatestStarted].produced)

\* C10 witness: the chunks "Hola", " ", "mundo" were streamed, the complete
\* event is handled and the turn reads "Hola mundo"
C10_Witness ==
  /\ ~overlapped
  /\ outbox = <<>>
  /\ Started # {}
  /\ tasks[LatestStarted].pc = "done"
  /\ tasks[LatestStarted].evs[Len(tasks[LatestStarted].evs)] = "complete"
  /\ handled = <<<<"Hola">>, <<" ">>, <<"mundo">>>>
  /\ messages # <<>>
  /\ Displayed = <<"Hola", " ", "mundo">>

\* nothing is on the channels and every invocation has returned
Quiescent ==
  /\ inbox = <<>>
  /\ outbox = <<>>
  /\ \A t \in DOMAIN tasks : tasks[t].pc = "done"

\* C11: once the "complete" event of a generation that did not overlap
\* another is handled, the assistant turn reads the final text the event
\* carried
C11_FinalTextOverwrites ==
  (/\ ~overlapped
   /\ outbox = <<>>
   /\ messages # <<>>
   /\ messages[Len(messages)].role = "assistant"
   /\ Started # {}
   /\ tasks[LatestStarted].out # NULL)
    => Displayed = tasks[LatestStarted].out

\* C12: after the check and a load that reached Ready, a single user turn
\* with a text and no image, sent with no failure of the engine, ends with
\* the events start, update*, complete and with a conversation of two turns
\* whose assistant text is the concatenation of the chunks
C12_EndToEnd ==
  (/\ Quiescent
   /\ faults = 0
   /\ sends = 1
   /\ messages # <<>>
   /\ messages[1] = Turn("user", <<TextPart(<<"hi">>)>>))
    => /\ Len(messages) = 2
       /\ messages[2].role = "assistant"
       /\ \E t \in GenTasks :
            /\ MatchesPattern(tasks[t].evs)
            /\ tasks[t].evs[Len(tasks[t].evs)] = "complete"
            /\ messages[2].content[1].text = Concat(tasks[t].produced)

\* C13: the step that takes an Interrupt off the channel posts no event and
\* starts or ends no invocation, and a generation is stopped only if an
\* Interrupt was received while it was in flight (never by an earlier one)
C13_InterruptNoop ==
  [][/\ (inbox # <<>> /\ inbox' = Tail(inbox)
          /\ Head(inbox).type = "interrupt")
         => /\ outbox' = outbox
            /\ Len(tasks') = Len(tasks)
            /\ \A t \in DOMAIN tasks :
                 /\ tasks'[t].evs = tasks[t].evs
                 /\ tasks'[t].pc = tasks[t].pc
     /\ \A t \in DOMAIN tasks' :
          (tasks'[t].kind = "generate" /\ tasks'[t].stopped)
            => tasks'[t].intAt # <<>>]_vars

\* C13 witness: the first Generate was received with the stopping criteria
\* interrupted, and it streamed every chunk and completed
C13_Witness ==
  \E t \in GenTasks :
    /\ \A u \in GenTasks : t <= u
    /\ tasks[t].flagged
    /\ ~tasks[t].stopped
    /\ Len(tasks[t].produced) = MaxTokens
    /\ tasks[t].evs[Len(tasks[t].evs)] = "complete"

\* C14: a generation the stopping criteria stopped, unless its decoding
\* failed, ends with a complete event that carries the prompt and the
\* chunks produced so far, and with no error event
C14_InterruptCompletes ==
  \A t \in GenTasks :
    (tasks[t].stopped /\ tasks[t].pc = "done" /\ tasks[t].failedAt = "")
      => /\ MatchesPattern(tasks[t].evs)
         /\ tasks[t].evs[Len(tasks[t].evs)] = "complete"
         /\ Count(tasks[t].evs, "error") = 0
         /\ tasks[t].out = ChatTemplate(PromptText(tasks[t].data))
                             \o Concat(tasks[t].produced)

\* C14 witness: a generation was interrupted after its first chunk and has
\* completed with that chunk
C14_Witness ==
  \E t \in GenTasks :
    /\ tasks[t].stopped
    /\ tasks[t].intAt # <<>>
    /\ tasks[t].produced = <<<<"Hola">>>>
    /\ tasks[t].evs = <<"start", "update", "complete">>

\* C15: a generation that was in flight when an Interrupt was received
\* produces at most one more chunk after it
C15_StopsAtBoundary ==
  \A t \in GenTasks :
    tasks[t].intAt # <<>>
      => Len(tasks[t].produced) <= tasks[t].intAt[1] + 1

\* C16: a check that found no adapter has reported a checked event (with
\* acceleration unavailable) together with exactly one error event
C16_CheckReportsUnavailable ==
  \A t \in DOMAIN tasks :
    (tasks[t].kind = "check" /\ tasks[t].failedAt = "check")
      => /\ InRange(tasks[t].evs, "checked")
         /\ Count(tasks[t].evs, "error") = 1

\* the page has handled the error event of a check that found no adapter
CheckUnavailableSeen ==
  \E t \in DOMAIN tasks :
    /\ tasks[t].kind = "check"
    /\ tasks[t].failedAt = "check"
    /\ \A i \in DOMAIN outbox : outbox[i].inv # t

\* C17: once the page has handled the report that acceleration is
\* unavailable, no Load command is sent
C17_NoLoadWhenUnavailable ==
  [][CheckUnavailableSeen => loadsPosted' = loadsPosted]_vars

\* C18: a load whose from_pretrained rejected ends with one error event and
\* no ready event; the instance that failed is never kept in a static field
\* of SmolVLM; and a load received after such a failure, while the engine is
\* not complete, calls from_pretrained again
C18_LoadFailureRetry ==
  [][/\ \A t \in DOMAIN tasks' :
          /\ (tasks'[t].kind = "load" /\ tasks'[t].failedAt = "load")
               => /\ tasks'[t].evs[Len(tasks'[t].evs)] = "error"
                  /\ Count(tasks'[t].evs, "error") = 1
                  /\ ~InRange(tasks'[t].evs, "ready")
          /\ tasks'[t].bad # <<>>
               => /\ tasks'[t].bad[1] = "processor"
                       => processor' # tasks'[t].bad[2]
                  /\ tasks'[t].bad[1] = "model"
                       => model' # tasks'[t].bad[2]
     /\ (/\ inbox # <<>> /\ inbox' = Tail(inbox)
         /\ Head(inbox).type = "load"
         /\ LoadFailed
         /\ (processor = 0 \/ model = 0))
         => procStarts' + modelStarts' > procStarts + modelStarts]_vars

\* C18 witness: a load received after a failed load has called
\* from_pretrained again and has posted ready
C18_Witness ==
  \E t \in LoadTasks :
    /\ tasks[t].afterFail
    /\ tasks[t].starts >= 1
    /\ InRange(tasks[t].evs, "ready")
    /\ processor # 0 /\ model # 0

\* the page has handled the error event of a load that failed
LoadFailedSeen ==
  \E t \in LoadTasks :
    /\ tasks[t].failedAt = "load"
    /\ \A i \in DOMAIN outbox : outbox[i].inv # t

\* C19: once the page has handled the error event of a failed load, its
\* status is neither loading nor ready
C19_LoadErrorState ==
  LoadFailedSeen => status \notin {"loading", "ready"}

\* C20: once the page has handled the error event of a failed load, the
\* user can issue Load again
C20_RetryPermitted ==
  LoadFailedSeen => LoadRendered

\* C20 witness: the failed load has been handled, nothing is pending, and
\* the page still shows the loading screen without its Load Model button
C20_Witness ==
  /\ LoadFailedSeen
  /\ Quiescent
  /\ status = "loading"
  /\ error = "load failed"
  /\ ~LoadRendered

\* after a failed load no reachable state of the page offers Load again
RetryNeverOffered ==
  LoadFailedSeen => ~LoadRendered

\* the page handles, in this step, a terminal event of a generation
GenEnds ==
  /\ outbox # <<>>
  /\ outbox' = Tail(outbox)
  /\ Head(outbox).status \in {"complete", "error"}
  /\ tasks[Head(outbox).inv].kind = "generate"

\* C21: when the page handles the complete or the error event of a
\* generation it clears isThinking and isStreaming and its status stays
\* "ready", so that the chat is rendered and handleSendMessage accepts a
\* further turn
C21_GenerationEndRecovers ==
  [][GenEnds => /\ ~isThinking'
                /\ ~isStreaming'
                /\ status = "ready"
                /\ status' = "ready"
                /\ gpuSupported']_vars

\* C21 witness: a generation failed, the page handled its error event, and
\* the user sent a further turn afterwards
C21_Witness ==
  /\ sends = 2
  /\ ~overlapped
  /\ \E t \in GenTasks :
       /\ tasks[t].failedAt = "generate"
       /\ InRange(tasks[t].evs, "error")
       /\ \E u \in GenTasks : u > t

\* C22: when the page handles the error event of a generation that had
\* started, the text of the assistant turn at the end of the conversation
\* is replaced (it is no longer the empty or partly streamed text)
C22_ErrorMarksPlaceholder ==
  [][(/\ GenEnds
      /\ Head(outbox).status = "error"
      /\ InRange(tasks[Head(outbox).inv].evs, "start")
      /\ messages # <<>>
      /\ messages[Len(messages)].role = "assistant")
       => /\ Len(messages') = Len(messages)
          /\ messages'[Len(messages')].content[1].text
               # messages[Len(messages)].content[1].text]_vars

\* progressItems holds a row for the file f
HasRow(items, f) == \E i \in DOMAIN items : items[i].file = f

\* the page handles, in this step, a progress report of status st for f
Handles(st, f) ==
  /\ outbox # <<>>
  /\ outbox' = Tail(outbox)
  /\ Head(outbox).status = st
  /\ Head(outbox).file = f

\* the page handles, in this step, an event that is a progress report
HandlesReport ==
  /\ outbox # <<>>
  /\ outbox' = Tail(outbox)
  /\ Head(outbox).status \in {"initiate", "progress", "done"}

\* C23: after a done for a file is handled progressItems has no row for
\* the file, and a file without a row gets one only by an initiate for it
C23_DoneRemoves ==
  [][\A f \in Files :
       /\ Handles("done", f) => ~HasRow(progressItems', f)
       /\ (HandlesReport /\ ~HasRow(progressItems, f)
             /\ ~Handles("initiate", f))
            => ~HasRow(progressItems', f)]_vars

\* C23 witness: the last report handled was a done for the model file,
\* whose row is gone while the row of the other file is still there
C23_Witness ==
  /\ lastProgress = [status |-> "done", file |-> "model.onnx"]
  /\ ~HasRow(progressItems, "model.onnx")
  /\ HasRow(progressItems, "preprocessor_config.json")

\* C24: after a progress report for a file that has no row is handled,
\* progressItems has a row for the file with the reported progress
C24_UnknownUpdateCreates ==
  [][\A f \in Files :
       (Handles("progress", f) /\ ~HasRow(progressItems, f))
         => \E i \in DOMAIN progressItems' :
              /\ progressItems'[i].file = f
              /\ progressItems'[i].progress = Head(outbox).progress]_vars

\* C25: progressItems holds at most one row per file
C25_UniqueKeys ==
  \A i \in DOMAIN progressItems : \A j \in DOMAIN progressItems :
    progressItems[i].file = progressItems[j].file => i = j

\* C26: once the page has handled the error event of a failed load,
\* progressItems is empty
C26_NoOrphanRows ==
  LoadFailedSeen => progressItems = <<>>

\* the statuses a load may post one after the other: loading first, the
\* reports of one from_pretrained call in the engine's order (initiate,
\* progress, done), and nothing after ready or error
MayFollow(a, b) ==
  CASE a = "loading" -> b \in {"initiate", "ready", "error"}
    [] a = "initiate" -> b \in {"progress", "done", "error"}
    [] a = "progress" -> b \in {"done", "error"}
    [] a = "done" -> b \in {"initiate", "ready", "error"}
    [] OTHER -> FALSE

\* C27: a load posts loading first, then the reports of its from_pretrained
\* calls in the order the engine made them, one event for each, and ends
\* with either ready or error; ready is posted only when the processor and
\* the model are both loaded, and nothing follows it
C27_LoadEventOrder ==
  [][\A t \in DOMAIN tasks' :
       tasks'[t].kind = "load" =>
         LET evs == tasks'[t].evs
         IN /\ evs # <<>>
            /\ evs[1] = "loading"
            /\ \A i \in 1..(Len(evs) - 1) : MayFollow(evs[i], evs[i + 1])
            /\ tasks'[t].pc = "done" => evs[Len(evs)] \in {"ready", "error"}
            /\ InRange(evs, "ready") => (processor' # 0 /\ model' # 0)
            /\ (t \in DOMAIN tasks /\ tasks'[t].ph # tasks[t].ph
                  /\ tasks'[t].ph # 0)
                 => /\ Len(evs) = Len(tasks[t].evs) + 1
                    /\ evs[Len(evs)] =
                         (CASE tasks'[t].ph = 1 -> "initiate"
                            [] tasks'[t].ph = 2 -> "progress"
                            [] OTHER -> "done")]_vars

\* C27 witness: a load that built the processor and the model has posted
\* loading, the three reports of each, and ready
C27_Witness ==
  \E t \in LoadTasks :
    tasks[t].evs = <<"loading", "initiate", "progress", "done",
                     "initiate", "progress", "done", "ready">>

\* C28: when the page handles the first update event after a start event,
\* isThinking is false and isStreaming is true afterwards
C28_FirstTokenFlags ==
  [][(/\ outbox # <<>>
      /\ outbox' = Tail(outbox)
      /\ Head(outbox).status = "update"
      /\ handled = <<>>)
       => (~isThinking' /\ isStreaming')]_vars

\* the assistant turns of the conversation
AssistantTurns == {i \in DOMAIN messages : messages[i].role = "assistant"}

\* C29: once every Generate the page posted has run to its end and its
\* events are handled, the conversation holds one assistant turn for each
\* (sends that overlapped set aside)
C29_OnePlaceholderPerGeneration ==
  (Quiescent /\ ~overlapped) => Cardinality(AssistantTurns) = sends

\* this step appends a user turn to the conversation
UserAppended ==
  /\ Len(messages') = Len(messages) + 1
  /\ SubSeq(messages', 1, Len(messages)) = messages
  /\ messages'[Len(messages')].role = "user"

\* C30: a step that appends a user turn posts one Generate that carries
\* the conversation; any other change of the conversation posts nothing;
\* and a Generate is posted only by a step that appends a user turn
C30_GeneratePerUserTurn ==
  [][/\ UserAppended
         => inbox' = Append(inbox, [type |-> "generate", data |-> messages'])
     /\ (messages' # messages /\ ~UserAppended) => inbox' = inbox
     /\ (/\ Len(inbox') > Len(inbox)
         /\ inbox'[Len(inbox')].type = "generate") => UserAppended]_vars

\* C30 witness: one turn was sent, the events of its generation changed the
\* conversation, and no Generate besides the one for the turn was posted
C30_Witness ==
  /\ sends = 1
  /\ Len(messages) = 2
  /\ messages[2] = Turn("assistant", <<TextPart(<<"Hola">>)>>)
  /\ Cardinality(GenTasks) = 1
  /\ \A t \in GenTasks : tasks[t].data = <<messages[1]>>
  /\ \A i \in DOMAIN inbox : inbox[i].type # "generate"

\* the content parts of the last turn of the request of invocation t
LastParts(t) == tasks[t].data[Len(tasks[t].data)].content

\* the texts of the last turn of the request of t, joined with spaces
LastText(t) == JoinSp(PartTexts(SelectParts(LastParts(t), "text")))

\* C31: a generate gets past its validation only if the last turn of its
\* request has a non-empty image part, and fails it only if that turn has
\* none, whatever the earlier turns hold; the prompt is built from the
\* texts of the last turn, or from the default text when it has none
C31_LastTurnOnly ==
  \A t \in GenTasks :
    /\ tasks[t].failedAt = "validation"
         => NonEmptyImages(LastParts(t)) = <<>>
    /\ tasks[t].pc \in {"images", "inputs", "generate"}
         => NonEmptyImages(LastParts(t)) # <<>>
    /\ tasks[t].prompt # <<>>
         => /\ NonEmptyImages(LastParts(t)) # <<>>
            /\ tasks[t].prompt =
                 ChatTemplate(IF LastText(t) = <<>> THEN DefaultPrompt
                              ELSE LastText(t))

\* C31 witness: a request whose first turn has an image and whose last
\* turn has a text only was refused, and a request whose only turn has an
\* image and no text got the default prompt
C31_Witness ==
  \E t \in GenTasks : \E u \in GenTasks :
    /\ tasks[t].data = FollowUp
    /\ tasks[t].failedAt = "validation"
    /\ tasks[u].data = <<Turn("user", <<ImagePart("img")>>)>>
    /\ tasks[u].prompt = <<"User:", "<image>",
                           "Describe this image in detail.", "Assistant:">>

\* C32: the step that takes a Reset off the channel leaves the interrupt
\* flag clear and changes neither the processor, the model, fp16_supported
\* nor any invocation, and posts nothing; a generate received after a Reset
\* and after a Ready calls no from_pretrained
C32_ResetKeepsEngine ==
  [][/\ (inbox # <<>> /\ inbox' = Tail(inbox) /\ Head(inbox).type = "reset")
         => /\ ~interrupted'
            /\ processor' = processor
            /\ model' = model
            /\ fp16_supported' = fp16_supported
            /\ procStarts' = procStarts
            /\ modelStarts' = modelStarts
            /\ outbox' = outbox
            /\ Len(tasks') = Len(tasks)
            /\ \A t \in DOMAIN tasks :
                 [tasks'[t] EXCEPT !.sawReset = tasks[t].sawReset] = tasks[t]
     /\ \A t \in DOMAIN tasks' :
          (/\ tasks'[t].kind = "generate"
           /\ tasks'[t].afterReset
           /\ tasks'[t].afterReady)
            => tasks'[t].starts = 0]_vars

\* C32 witness: a generate received after a Ready and a Reset has completed
\* without calling from_pretrained
C32_Witness ==
  \E t \in GenTasks :
    /\ tasks[t].afterReset
    /\ tasks[t].afterReady
    /\ tasks[t].starts = 0
    /\ tasks[t].evs # <<>>
    /\ tasks[t].evs[Len(tasks[t].evs)] = "complete"

\* C33: no step changes a user turn of the conversation: it stays where it
\* is with its role and its content parts
C33_UserTurnsKept ==
  [][\A i \in DOMAIN messages :
       messages[i].role = "user"
         => (i \in DOMAIN messages' /\ messages'[i] = messages[i])]_vars

\* C34: isThinking and isStreaming are never both true
C34_FlagsExclusive ==
  ~(isThinking /\ isStreaming)

\* the Check commands the page has posted so far
ChecksPosted ==
  Cardinality({t \in DOMAIN tasks : tasks[t].kind = "check"})
  + Cardinality({i \in DOMAIN inbox : inbox[i].type = "check"})

\* C35: the page has posted Check once and has one message listener
\* registered, however often the setup effect has run again; the step that
\* takes an event off the channel applies the listener to it once (a start
\* event appends one turn, an update event adds one chunk)
C35_OneListener ==
  [][/\ ChecksPosted' = 1
     /\ listeners' = 1
     /\ (outbox # <<>> /\ outbox' = Tail(outbox))
         => /\ Head(outbox).status = "start"
                 => messages' = Append(messages, Placeholder)
            /\ Head(outbox).status = "update"
                 => handled' = Append(handled, Head(outbox).output)]_vars

\* C35 witness: the setup effect has run again after a start event, and
\* the update event handled since then has added its chunk once
C35_Witness ==
  /\ listenerThinking
  /\ ~isThinking
  /\ listeners = 1
  /\ handled = <<<<"Hola">>>>
  /\ Displayed = <<"Hola">>
  /\ ChecksPosted = 1

\* the invocations of handleTranslate that started a translation
TranslateTasks == {t \in DOMAIN ttasks : ttasks[t].kind = "translate"}

\* invocation t of handleTranslate ends in this step
TranslateEnds(t) ==
  /\ t \in DOMAIN ttasks
  /\ ttasks[t].kind = "translate"
  /\ ttasks[t].pc \in {"create", "stream"}
  /\ ttasks'[t].pc \in {"done", "failed"}

\* C36: the step in which an invocation of handleTranslate ends leaves
\* isTranslating false, and translatedText equal to the error text if it
\* ended by a throw; and every invocation that started a translation ends
C36_TranslateEnds ==
  /\ [][\A t \in DOMAIN ttasks :
          TranslateEnds(t)
            => /\ ~isTranslating'
               /\ ttasks'[t].pc = "failed"
                    => translatedText' = TranslationError]_vars
  /\ \A t \in 1..(MaxInits + MaxTranslates) :
       (t \in TranslateTasks) ~>
         (t \in TranslateTasks /\ ttasks[t].pc \in {"done", "failed"})

\* C36 witness: a translation threw after some text had been shown; the
\* error text is shown instead and isTranslating is false
C36_Witness ==
  \E t \in TranslateTasks :
    /\ ttasks[t].pc = "failed"
    /\ ttasks[t].fullResponse # <<>>
    /\ translatedText = TranslationError
    /\ ~isTranslating

\* an invocation of handleTranslate is made in this step
TranslateInvoked ==
  /\ Len(ttasks') = Len(ttasks) + 1
  /\ ttasks'[Len(ttasks')].kind \in {"translate", "rejected"}

\* C37: an invocation of handleTranslate made with engine null or with a
\* source text that is empty or white space only makes no engine call and
\* leaves every state of the page as it is
C37_RejectedTranslateNoop ==
  [][(TranslateInvoked /\ (engine = 0 \/ Trim(sourceText) = <<>>))
       => /\ ttasks'[Len(ttasks')].kind = "rejected"
          /\ isTranslating' = isTranslating
          /\ translatedText' = translatedText
          /\ UNCHANGED <<engine, isLoading, progress, sourceText, sourceLang,
                         targetLang, engineStarts, engineFails>>]_vars

\* C37 witness: handleTranslate returned at once when the engine was null,
\* and again with an engine and a source text of one space
C37_Witness ==
  \E t \in DOMAIN ttasks : \E u \in DOMAIN ttasks :
    /\ ttasks[t].kind = "rejected" /\ ttasks[t].inst = 0
    /\ ttasks[u].kind = "rejected" /\ ttasks[u].inst # 0
    /\ sourceText = <<" ">>
    /\ ~isTranslating
    /\ translatedText = <<>>

\* C38: the step in which CreateMLCEngine rejects leaves engine as it was,
\* isLoading false and the error text in progress, so that with engine
\* null the Initialize button is enabled again; and engine changes only in
\* a step in which a CreateMLCEngine call resolves, to the engine it built
C38_InitFailureRetry ==
  [][/\ engineFails' # engineFails
         => /\ engine' = engine
            /\ ~isLoading'
            /\ progress' = "Error initializing engine. Please try again."
            /\ engine = 0 => InitEnabled'
     /\ engine' # engine
         => \E t \in DOMAIN ttasks :
              /\ ttasks[t].kind = "init"
              /\ ttasks[t].pc = "create"
              /\ ttasks'[t].pc = "done"
              /\ engine' = ttasks[t].inst
              /\ engineFails' = engineFails]_vars

\* C38 witness: on the page as rendered the first initializeEngine failed
\* and the second one has set the engine
C38_Witness ==
  /\ mode = "ui"
  /\ engineFails = 1
  /\ engineStarts = 2
  /\ engine = 2
  /\ ~isLoading
  /\ progress = "Engine ready!"

\* the step changes sourceLang, or sourceText and translatedText together:
\* of the page's handlers only swapLanguages does
SwapTaken ==
  \/ sourceLang' # sourceLang
  \/ (sourceText' # sourceText /\ translatedText' # translatedText)

\* source and target exchanged, for the languages and for the texts
Swapped(v) == <<v[2], v[1], v[4], v[3]>>

\* C39: swapLanguages exchanges sourceLang with targetLang and sourceText
\* with translatedText and changes nothing else, and swapping the values it
\* leaves gives back the values it found
C39_SwapInvolution ==
  [][SwapTaken
       => /\ <<sourceLang', targetLang', sourceText', translatedText'>>
               = Swapped(<<sourceLang, targetLang, sourceText,
                           translatedText>>)
          /\ Swapped(<<sourceLang', targetLang', sourceText',
                       translatedText'>>)
               = <<sourceLang, targetLang, sourceText, translatedText>>
          /\ UNCHANGED <<engine, isLoading, progress, isTranslating, ttasks,
                         engineStarts, engineFails>>]_vars

\* C39 witness: after a translation of "hi" the languages and the texts
\* were swapped: the translation is the source text and "hi" the translation
C39_Witness ==
  /\ sourceLang = "Spanish"
  /\ targetLang = "English"
  /\ sourceText = <<"Hola", " ", "mundo">>
  /\ translatedText = <<"hi">>

=============================================================================
